---- MODULE Spec2Model ----
(***************************************************************************)
(* Model of package lru (src/lru.go): an LRU cache made of a               *)
(* container/list doubly linked ring (Cache.Ll) and a map from keys to     *)
(* list elements (Cache.Cache).  Elements live in a small heap of          *)
(* identifiers; element 0 is the list's root sentinel.                     *)
(***************************************************************************)
EXTENDS Integers, Sequences, FiniteSets, TLC

\* ------------------------------------------------------------------ bounds
NumKeys == 3
NumVals == 2
MaxCap == 2

Keys == 1..NumKeys
Values == 1..NumVals
\* one heap cell per key is all a cache without duplicate nodes can hold
NumElems == NumKeys
ElemIds == 1..NumElems

\* ----------------------------------------------------------------- Go nil
Nil == 0 - 1
root == 0
Nodes == {root} \cup ElemIds
NilKey == 0
NilValue == 0
NoEntry == [key |-> NilKey, value |-> NilValue]

VARIABLES
    c,            \* the receiver *Cache: MaxEntries, OnEvicted, Ll, Cache
    recency,      \* ghost: resident entries by last touch, most recent first
    op,           \* the last call and its arguments
    events,       \* callbacks made by the last call, in order
    ret,          \* what the last call returned
    tally         \* ghost: use counts kept while no entry is removed by hand

vars == <<c, recency, op, events, ret, tally>>

\* ------------------------------------------------------- container/list
EmptyMap == [k \in {} |-> Nil]

ListNew ==
    [next  |-> [n \in Nodes |-> IF n = root THEN root ELSE Nil],
     prev  |-> [n \in Nodes |-> IF n = root THEN root ELSE Nil],
     list  |-> [e \in ElemIds |-> FALSE],
     len   |-> 0,
     Value |-> [e \in ElemIds |-> NoEntry]]

ListLen(l) == l.len

\* mutant: the front is taken for the back
ListBackFront(l) == IF l.len = 0 THEN Nil ELSE l.next[root]

ListBack(l) == IF l.len = 0 THEN Nil ELSE l.prev[root]

ElemPrev(l, e) ==
    IF l.list[e] /\ l.prev[e] # root THEN l.prev[e] ELSE Nil

\* e.prev = at; e.next = at.next; e.prev.next = e; e.next.prev = e
ListInsert(l, e, at) ==
    LET l1 == [l EXCEPT !.prev[e] = at, !.next[e] = l.next[at]]
        l2 == [l1 EXCEPT !.next[l1.prev[e]] = e]
        l3 == [l2 EXCEPT !.prev[l2.next[e]] = e]
    IN  [l3 EXCEPT !.list[e] = TRUE, !.len = @ + 1]

\* e.prev.next = e.next; e.next.prev = e.prev; e.next, e.prev, e.list = nil
ListUnlink(l, e) ==
    LET l1 == [l EXCEPT !.next[l.prev[e]] = l.next[e]]
        l2 == [l1 EXCEPT !.prev[l1.next[e]] = l1.prev[e]]
    IN  [l2 EXCEPT !.next[e] = Nil, !.prev[e] = Nil,
                   !.list[e] = FALSE, !.len = @ - 1]

ListMove(l, e, at) ==
    IF e = at THEN l
    ELSE LET l1 == [l EXCEPT !.next[l.prev[e]] = l.next[e]]
             l2 == [l1 EXCEPT !.prev[l1.next[e]] = l1.prev[e]]
             l3 == [l2 EXCEPT !.prev[e] = at, !.next[e] = l2.next[at]]
             l4 == [l3 EXCEPT !.next[l3.prev[e]] = e]
         IN  [l4 EXCEPT !.prev[l4.next[e]] = e]

ListRemove(l, e) == IF l.list[e] THEN ListUnlink(l, e) ELSE l

\* mutant: the element at the back is carried to the front along with e
ListMoveToFrontCarrying(l, e) ==
    IF ~l.list[e] \/ l.next[root] = e THEN l
    ELSE LET back == l.prev[root]
         IN  IF back = e THEN ListMove(l, e, root)
             ELSE ListMove(ListMove(l, back, root), e, root)

ListMoveToFront(l, e) ==
    IF ~l.list[e] \/ l.next[root] = e THEN l ELSE ListMove(l, e, root)

\* heap cells no element occupies
FreeElems(l) == {e \in ElemIds : l.Value[e] = NoEntry}

NewElem(l) == CHOOSE e \in FreeElems(l) : \A f \in FreeElems(l) : e <= f

\* mutant: the fresh element is inserted at the back
ListPushBack(l, v) ==
    LET e == NewElem(l)
    IN  [l |-> ListInsert([l EXCEPT !.Value[e] = v], e, l.prev[root]), e |-> e]

\* PushFront(v): a fresh element holding v, inserted after the root
ListPushFront(l, v) ==
    LET e == NewElem(l)
    IN  [l |-> ListInsert([l EXCEPT !.Value[e] = v], e, root), e |-> e]

\* the elements of the ring, front to back
RECURSIVE Walk(_, _, _)
Walk(l, n, fuel) ==
    IF n = root \/ n = Nil \/ fuel = 0 THEN <<>>
    ELSE <<n>> \o Walk(l, l.next[n], fuel - 1)

Order(l) == Walk(l, l.next[root], NumElems + 1)

SeqRange(s) == {s[i] : i \in 1..Len(s)}


\* ------------------------------------------------------------- the cache
MapPut(m, k, e) == [x \in DOMAIN m \cup {k} |-> IF x = k THEN e ELSE m[x]]

MapDelete(m, k) == [x \in DOMAIN m \ {k} |-> m[x]]

\* keys held by the elements linked in the list, front to back
ListKeys(l) ==
    LET ord == Order(l) IN [i \in 1..Len(ord) |-> l.Value[ord[i]].key]

NoRet == [value |-> NilValue, ok |-> FALSE, key |-> NilKey, panic |-> FALSE]

Evicted(key, value, linked, indexed) ==
    [type |-> "evicted", key |-> key, value |-> value,
     stop |-> FALSE, remove |-> FALSE, linked |-> linked, indexed |-> indexed]

Visit(key, value, stop, remove) ==
    [type |-> "visit", key |-> key, value |-> value,
     stop |-> stop, remove |-> remove, linked |-> TRUE, indexed |-> TRUE]

\* the receiver at the start of a call, with the callbacks it makes.
\* OnEvicted is TRUE iff the field is not nil, made iff Cache is not nil.
\* panic becomes TRUE when the call dereferences a nil c.Ll.
Cur == [MaxEntries |-> c.MaxEntries, OnEvicted |-> c.OnEvicted, made |-> c.made,
        Cache |-> c.Cache, Ll |-> c.Ll, events |-> <<>>, panic |-> FALSE]

\* the zero value of Cache
ZeroList ==
    [next  |-> [n \in Nodes |-> Nil],
     prev  |-> [n \in Nodes |-> Nil],
     list  |-> [e \in ElemIds |-> FALSE],
     len   |-> 0,
     Value |-> [e \in ElemIds |-> NoEntry]]

\* c.Ll is nil: a method call on it is a nil pointer dereference
NilLl(st) == st.Ll = ZeroList

Panic(st) == [st EXCEPT !.panic = TRUE]

\* mutant: the callback runs before the entry is taken out
removeElementNotifyFirst(st, e) ==
    LET kv == st.Ll.Value[e]
        ev == Evicted(kv.key, kv.value,
                      kv.key \in SeqRange(ListKeys(st.Ll)), kv.key \in DOMAIN st.Cache)
    IN  [st EXCEPT !.Ll = ListRemove(st.Ll, e), !.Cache = MapDelete(st.Cache, kv.key),
                   !.events = IF st.OnEvicted THEN Append(@, ev) ELSE @]

\* mutant: the index entry is left behind
removeElementKeepIndex(st, e) ==
    LET l1 == ListRemove(st.Ll, e)
        kv == l1.Value[e]
        ev == Evicted(kv.key, kv.value,
                      kv.key \in SeqRange(ListKeys(l1)), kv.key \in DOMAIN st.Cache)
    IN  [st EXCEPT !.Ll = l1,
                   !.events = IF st.OnEvicted THEN Append(@, ev) ELSE @]

removeElement(st, e) ==
    LET l1 == ListRemove(st.Ll, e)
        kv == l1.Value[e]
        m1 == MapDelete(st.Cache, kv.key)
        ev == Evicted(kv.key, kv.value,
                      kv.key \in SeqRange(ListKeys(l1)), kv.key \in DOMAIN m1)
    IN  [st EXCEPT !.Ll = l1, !.Cache = m1,
                   !.events = IF st.OnEvicted THEN Append(@, ev) ELSE @]

\* mutant: RemoveOldest does not test for the zero value
RemoveOldestBodyUnguarded(st) ==
    IF NilLl(st) THEN [st |-> Panic(st), key |-> NilKey]
    ELSE LET ele == ListBack(st.Ll)
         IN  IF ele # Nil
             THEN LET s1 == removeElement(st, ele)
                  IN  [st |-> s1, key |-> s1.Ll.Value[ele].key]
             ELSE [st |-> st, key |-> NilKey]

RemoveOldestBody(st) ==
    IF ~st.made THEN [st |-> st, key |-> NilKey]
    ELSE IF NilLl(st) THEN [st |-> Panic(st), key |-> NilKey]
    ELSE LET ele == ListBack(st.Ll)
         IN  IF ele # Nil
             THEN LET s1 == removeElement(st, ele)
                  IN  [st |-> s1, key |-> s1.Ll.Value[ele].key]
             ELSE [st |-> st, key |-> NilKey]

\* mutant: the capacity test is off by one
AddBodyLateEvict(st, key, value) ==
    LET s0 == IF ~st.made
              THEN [st EXCEPT !.made = TRUE, !.Cache = EmptyMap, !.Ll = ListNew]
              ELSE st
    IN  IF key \in DOMAIN s0.Cache
        THEN LET ee == s0.Cache[key]
                 l1 == ListMoveToFront(s0.Ll, ee)
             IN  [s0 EXCEPT !.Ll = [l1 EXCEPT !.Value[ee].value = value]]
        ELSE LET p  == ListPushFront(s0.Ll, [key |-> key, value |-> value])
                 s1 == [s0 EXCEPT !.Ll = p.l, !.Cache = MapPut(@, key, p.e)]
             IN  IF s1.MaxEntries # 0 /\ ListLen(s1.Ll) > s1.MaxEntries + 1
                 THEN RemoveOldestBody(s1).st
                 ELSE s1

\* mutant: an Add of a resident key does not refresh its position
AddBodyNoRefresh(st, key, value) ==
    LET s0 == IF ~st.made
              THEN [st EXCEPT !.made = TRUE, !.Cache = EmptyMap, !.Ll = ListNew]
              ELSE st
    IN  IF key \in DOMAIN s0.Cache
        THEN LET ee == s0.Cache[key]
             IN  [s0 EXCEPT !.Ll.Value[ee].value = value]
        ELSE LET p  == ListPushFront(s0.Ll, [key |-> key, value |-> value])
                 s1 == [s0 EXCEPT !.Ll = p.l, !.Cache = MapPut(@, key, p.e)]
             IN  IF s1.MaxEntries # 0 /\ ListLen(s1.Ll) > s1.MaxEntries
                 THEN RemoveOldestBody(s1).st
                 ELSE s1

\* mutant: an Add of a resident key keeps the old value
AddBodyStaleValue(st, key, value) ==
    LET s0 == IF ~st.made
              THEN [st EXCEPT !.made = TRUE, !.Cache = EmptyMap, !.Ll = ListNew]
              ELSE st
    IN  IF key \in DOMAIN s0.Cache
        THEN [s0 EXCEPT !.Ll = ListMoveToFront(s0.Ll, s0.Cache[key])]
        ELSE LET p  == ListPushFront(s0.Ll, [key |-> key, value |-> value])
                 s1 == [s0 EXCEPT !.Ll = p.l, !.Cache = MapPut(@, key, p.e)]
             IN  IF s1.MaxEntries # 0 /\ ListLen(s1.Ll) > s1.MaxEntries
                 THEN RemoveOldestBody(s1).st
                 ELSE s1

\* mutant: the cache evicts at MaxEntries instead of above it
AddBodyEvictAtCapacity(st, key, value) ==
    LET s0 == IF ~st.made
              THEN [st EXCEPT !.made = TRUE, !.Cache = EmptyMap, !.Ll = ListNew]
              ELSE st
    IN  IF key \in DOMAIN s0.Cache
        THEN LET ee == s0.Cache[key]
                 l1 == ListMoveToFront(s0.Ll, ee)
             IN  [s0 EXCEPT !.Ll = [l1 EXCEPT !.Value[ee].value = value]]
        ELSE LET p  == ListPushFront(s0.Ll, [key |-> key, value |-> value])
                 s1 == [s0 EXCEPT !.Ll = p.l, !.Cache = MapPut(@, key, p.e)]
             IN  IF s1.MaxEntries # 0 /\ ListLen(s1.Ll) >= s1.MaxEntries
                 THEN RemoveOldestBody(s1).st
                 ELSE s1

\* mutant: MaxEntries = 0 is taken as a capacity of zero
AddBodyZeroCapped(st, key, value) ==
    LET s0 == IF ~st.made
              THEN [st EXCEPT !.made = TRUE, !.Cache = EmptyMap, !.Ll = ListNew]
              ELSE st
    IN  IF key \in DOMAIN s0.Cache
        THEN LET ee == s0.Cache[key]
                 l1 == ListMoveToFront(s0.Ll, ee)
             IN  [s0 EXCEPT !.Ll = [l1 EXCEPT !.Value[ee].value = value]]
        ELSE LET p  == ListPushFront(s0.Ll, [key |-> key, value |-> value])
                 s1 == [s0 EXCEPT !.Ll = p.l, !.Cache = MapPut(@, key, p.e)]
             IN  IF ListLen(s1.Ll) > s1.MaxEntries
                 THEN RemoveOldestBody(s1).st
                 ELSE s1

AddBody(st, key, value) ==
    LET s0 == IF ~st.made
              THEN [st EXCEPT !.made = TRUE, !.Cache = EmptyMap, !.Ll = ListNew]
              ELSE st
    IN  IF key \in DOMAIN s0.Cache
        THEN LET ee == s0.Cache[key]
                 l1 == ListMoveToFront(s0.Ll, ee)
             IN  [s0 EXCEPT !.Ll = [l1 EXCEPT !.Value[ee].value = value]]
        ELSE LET p  == ListPushFront(s0.Ll, [key |-> key, value |-> value])
                 s1 == [s0 EXCEPT !.Ll = p.l, !.Cache = MapPut(@, key, p.e)]
             IN  IF s1.MaxEntries # 0 /\ ListLen(s1.Ll) > s1.MaxEntries
                 THEN RemoveOldestBody(s1).st
                 ELSE s1

\* mutant: a miss refreshes the oldest entry
GetBodyMissRefreshes(st, key) ==
    IF ~st.made THEN [st |-> st, value |-> NilValue, ok |-> FALSE]
    ELSE IF key \in DOMAIN st.Cache
         THEN LET ele == st.Cache[key]
                  l1  == ListMoveToFront(st.Ll, ele)
              IN  [st |-> [st EXCEPT !.Ll = l1],
                   value |-> l1.Value[ele].value, ok |-> TRUE]
         ELSE LET back == ListBack(st.Ll)
              IN  [st |-> IF back = Nil THEN st
                          ELSE [st EXCEPT !.Ll = ListMoveToFront(st.Ll, back)],
                   value |-> NilValue, ok |-> FALSE]

\* mutant: a hit does not count as a use
GetBodyNoMove(st, key) ==
    IF ~st.made THEN [st |-> st, value |-> NilValue, ok |-> FALSE]
    ELSE IF key \in DOMAIN st.Cache
         THEN [st |-> st, value |-> st.Ll.Value[st.Cache[key]].value, ok |-> TRUE]
         ELSE [st |-> st, value |-> NilValue, ok |-> FALSE]

GetBody(st, key) ==
    IF ~st.made THEN [st |-> st, value |-> NilValue, ok |-> FALSE]
    ELSE IF key \in DOMAIN st.Cache
         THEN LET ele == st.Cache[key]
                  l1  == ListMoveToFront(st.Ll, ele)
              IN  [st |-> [st EXCEPT !.Ll = l1],
                   value |-> l1.Value[ele].value, ok |-> TRUE]
         ELSE [st |-> st, value |-> NilValue, ok |-> FALSE]

\* mutant: the oldest element is removed instead of the key's
RemoveBodyOldest(st, key) ==
    IF ~st.made THEN st
    ELSE IF key \in DOMAIN st.Cache
         THEN removeElement(st, ListBack(st.Ll))
         ELSE st

RemoveBody(st, key) ==
    IF ~st.made THEN st
    ELSE IF key \in DOMAIN st.Cache
         THEN removeElement(st, st.Cache[key])
         ELSE st

LenBody(st) == IF ~st.made THEN 0 ELSE ListLen(st.Ll)

\* mutant: a visit counts as a use
RECURSIVE ForeachLoopTouching(_, _)
ForeachLoopTouching(st, ele) ==
    IF ele = Nil THEN {st}
    ELSE LET entry == st.Ll.Value[ele]
         IN  UNION {LET s1 == [st EXCEPT !.Ll = ListMoveToFront(@, ele),
                                         !.events =
                                 Append(@, Visit(entry.key, entry.value, r, FALSE))]
                    IN  IF r THEN {s1}
                        ELSE ForeachLoopTouching(s1, ElemPrev(s1.Ll, ele))
                    : r \in BOOLEAN}

\* for ele := Back(); ele != nil; ele = ele.Prev(): every way the visitor
\* may answer gives one final receiver
RECURSIVE ForeachLoop(_, _)
ForeachLoop(st, ele) ==
    IF ele = Nil THEN {st}
    ELSE LET entry == st.Ll.Value[ele]
         IN  UNION {LET s1 == [st EXCEPT !.events =
                                 Append(@, Visit(entry.key, entry.value, r, FALSE))]
                    IN  IF r THEN {s1}
                        ELSE ForeachLoop(s1, ElemPrev(s1.Ll, ele))
                    : r \in BOOLEAN}

\* mutant: the traversal starts at the front
ForeachBodyFromFront(st) ==
    IF ~st.made THEN {st} ELSE ForeachLoop(st, ListBackFront(st.Ll))

ForeachBody(st) ==
    IF ~st.made THEN {st}
    ELSE IF NilLl(st) THEN {Panic(st)}
    ELSE ForeachLoop(st, ListBack(st.Ll))

\* the position the loop continues from, taken before fn and the removal
NextToVisit(l, ele) == ElemPrev(l, ele)

\* mutant: the removal is applied before the stop result is looked at
RECURSIVE RemoveForeachLoopRemoveFirst(_, _)
RemoveForeachLoopRemoveFirst(st, ele) ==
    IF ele = Nil THEN {st}
    ELSE LET entry  == st.Ll.Value[ele]
             nxt    == NextToVisit(st.Ll, ele)
         IN  UNION {LET s1 == [st EXCEPT !.events =
                                 Append(@, Visit(entry.key, entry.value, d[1], d[2]))]
                        s2 == IF d[2] THEN removeElement(s1, ele) ELSE s1
                    IN  IF d[1] THEN {s2}
                        ELSE RemoveForeachLoopRemoveFirst(s2, nxt)
                    : d \in BOOLEAN \X BOOLEAN}

\* mutant: the next element is looked up after the removal
RECURSIVE RemoveForeachLoopLateNext(_, _)
RemoveForeachLoopLateNext(st, ele) ==
    IF ele = Nil THEN {st}
    ELSE LET entry  == st.Ll.Value[ele]
         IN  UNION {LET s1 == [st EXCEPT !.events =
                                 Append(@, Visit(entry.key, entry.value, d[1], d[2]))]
                        s2 == IF d[2] THEN removeElement(s1, ele) ELSE s1
                    IN  IF d[1] THEN {s1}
                        ELSE RemoveForeachLoopLateNext(s2, NextToVisit(s2.Ll, ele))
                    : d \in BOOLEAN \X BOOLEAN}

\* mutant: the two results of the visitor are read in the other order
RECURSIVE RemoveForeachLoopSwapped(_, _)
RemoveForeachLoopSwapped(st, ele) ==
    IF ele = Nil THEN {st}
    ELSE LET entry  == st.Ll.Value[ele]
             nxt    == NextToVisit(st.Ll, ele)
         IN  UNION {LET s1 == [st EXCEPT !.events =
                                 Append(@, Visit(entry.key, entry.value, d[1], d[2]))]
                    IN  IF d[2] THEN {s1}
                        ELSE IF d[1]
                             THEN RemoveForeachLoopSwapped(removeElement(s1, ele), nxt)
                             ELSE RemoveForeachLoopSwapped(s1, nxt)
                    : d \in BOOLEAN \X BOOLEAN}

\* oldEle := ele; ele = ele.Prev(); ret, remove = fn(...); if ret {break};
\* if remove {c.removeElement(oldEle)}
RECURSIVE RemoveForeachLoop(_, _)
RemoveForeachLoop(st, ele) ==
    IF ele = Nil THEN {st}
    ELSE LET entry  == st.Ll.Value[ele]
             oldEle == ele
             nxt    == NextToVisit(st.Ll, ele)
         IN  UNION {LET s1 == [st EXCEPT !.events =
                                 Append(@, Visit(entry.key, entry.value, d[1], d[2]))]
                    IN  IF d[1] THEN {s1}
                        ELSE IF d[2]
                             THEN RemoveForeachLoop(removeElement(s1, oldEle), nxt)
                             ELSE RemoveForeachLoop(s1, nxt)
                    : d \in BOOLEAN \X BOOLEAN}

\* mutant: the callbacks are held back until the traversal has ended
RemoveForeachBodyBatched(st) ==
    IF ~st.made THEN {st}
    ELSE IF NilLl(st) THEN {Panic(st)}
    ELSE {[s EXCEPT !.events = SelectSeq(@, LAMBDA x : x.type = "visit")
                               \o SelectSeq(@, LAMBDA x : x.type = "evicted")]
          : s \in RemoveForeachLoop(st, ListBack(st.Ll))}

RemoveForeachBody(st) ==
    IF ~st.made THEN {st}
    ELSE IF NilLl(st) THEN {Panic(st)}
    ELSE RemoveForeachLoop(st, ListBack(st.Ll))

\* ------------------------------------------------------------ bookkeeping
\* an element neither linked nor indexed is unreachable: its cell is free
Collect(l, m) ==
    [l EXCEPT !.Value = [e \in ElemIds |->
        IF l.list[e] \/ (\E k \in DOMAIN m : m[k] = e) THEN @[e] ELSE NoEntry]]

\* Element addresses are only ever compared for equality, so heap cells are
\* kept in one numbering: linked elements front to back, then the others.
Numbering(l) ==
    LET ord  == Order(l)
        rest == ElemIds \ SeqRange(ord)
    IN  IF \E i, j \in 1..Len(ord) : i # j /\ ord[i] = ord[j]
        THEN [i \in ElemIds |-> i]
        ELSE ord \o [i \in 1..Cardinality(rest) |->
                       CHOOSE e \in rest : Cardinality({f \in rest : f < e}) = i - 1]

\* inv[new] is the old cell, ren[old] the new one
Renumbered(l, m, inv, ren) ==
    [Ll    |-> [next  |-> [n \in Nodes |-> ren[l.next[inv[n]]]],
                prev  |-> [n \in Nodes |-> ren[l.prev[inv[n]]]],
                list  |-> [e \in ElemIds |-> l.list[inv[e]]],
                len   |-> l.len,
                Value |-> [e \in ElemIds |-> l.Value[inv[e]]]],
     Cache |-> [k \in DOMAIN m |-> ren[m[k]]]]

Inverse(num) ==
    [n \in Nodes \cup {Nil} |->
        IF n = root \/ n = Nil THEN n ELSE CHOOSE i \in ElemIds : num[i] = n]

Compact(l, m) ==
    LET num == Numbering(l)
    IN  IF num = [i \in ElemIds |-> i]
        THEN [Ll |-> l, Cache |-> m]
        ELSE Renumbered(l, m, [n \in Nodes |-> IF n = root THEN root ELSE num[n]],
                        Inverse(num))

\* the receiver a call leaves behind
Left(st) ==
    IF st.Ll = c.Ll /\ st.Cache = c.Cache /\ st.made = c.made THEN c
    ELSE LET h == Compact(Collect(st.Ll, st.Cache), st.Cache)
         IN  [MaxEntries |-> st.MaxEntries, OnEvicted |-> st.OnEvicted,
              made |-> st.made, Cache |-> h.Cache, Ll |-> h.Ll]

Resident(st) == IF st.made THEN DOMAIN st.Cache ELSE {}

\* ghost: Add(k, v) makes (k, v) the most recently touched entry
Touch(rec, k, v) ==
    <<[key |-> k, value |-> v]>> \o SelectSeq(rec, LAMBDA x : x.key # k)

\* ghost: a Get that hits k makes k's entry the most recently touched
Bump(rec, k) ==
    SelectSeq(rec, LAMBDA x : x.key = k) \o SelectSeq(rec, LAMBDA x : x.key # k)

\* ghost: forget the entries that are no longer resident
Keep(rec, S) == SelectSeq(rec, LAMBDA x : x.key \in S)

RecKeys(rec) == {rec[i].key : i \in 1..Len(rec)}

Call(name, key, value, present) ==
    [name |-> name, key |-> key, value |-> value, present |-> present]

Commit(st, o, r, rec) ==
    /\ c' = Left(st)
    /\ events' = st.events
    /\ op' = o
    /\ ret' = [r EXCEPT !.panic = st.panic]
    /\ recency' = Keep(rec, Resident(st))

\* ghost: added = the keys Add was called with; for a resident key k,
\* since[k] = the Adds of absent keys since k's last touch, and clean[k] =
\* no other resident key was touched since
MaxSince == MaxCap + 1

NoTally ==
    [added |-> {}, since |-> [k \in Keys |-> 0], clean |-> [k \in Keys |-> TRUE]]

Counted(t, o, before, after) ==
    LET hit   == o.name \in {"Add", "Get"} /\ o.key \in before
        fresh == o.name = "Add" /\ o.key \notin before
    IN  [added |-> IF o.name = "Add" THEN t.added \cup {o.key} ELSE t.added,
         since |-> [k \in Keys |->
                      IF k \notin after \/ (k = o.key /\ (hit \/ fresh)) THEN 0
                      ELSE IF fresh /\ t.since[k] < MaxSince THEN t.since[k] + 1
                      ELSE t.since[k]],
         clean |-> [k \in Keys |->
                      IF k \notin after \/ (k = o.key /\ (hit \/ fresh)) THEN TRUE
                      ELSE IF hit THEN FALSE
                      ELSE t.clean[k]]]

\* ---------------------------------------------------------------- actions
New(maxEntries) ==
    [MaxEntries |-> maxEntries, OnEvicted |-> FALSE, made |-> TRUE,
     Cache |-> EmptyMap, Ll |-> ListNew]

ZeroValue(maxEntries) ==
    [MaxEntries |-> maxEntries, OnEvicted |-> FALSE, made |-> FALSE,
     Cache |-> EmptyMap, Ll |-> ZeroList]

\* A cache from New, or a zero value with MaxEntries set; its owner has
\* registered OnEvicted (without one the same calls run and nothing is
\* called back).
Init ==
    /\ \E n \in (0 - 1)..MaxCap :
          c \in {[New(n) EXCEPT !.OnEvicted = TRUE],
                 [ZeroValue(n) EXCEPT !.OnEvicted = TRUE]}
    /\ recency = <<>>
    /\ op = Call("New", NilKey, NilValue, FALSE)
    /\ events = <<>>
    /\ ret = NoRet
    /\ tally = NoTally

\* the first conjunct only bounds the heap: with one cell per key it never
\* stops an Add of this cache
Add(key, value) ==
    /\ c.made => (key \in DOMAIN c.Cache \/ FreeElems(c.Ll) # {})
    /\ \E st \in {AddBody(Cur, key, value)} :
          Commit(st, Call("Add", key, value, key \in RecKeys(recency)),
                 NoRet, Touch(recency, key, value))

Get(key) ==
    \E g \in {GetBody(Cur, key)} :
        Commit(g.st, Call("Get", key, NilValue, key \in RecKeys(recency)),
               [NoRet EXCEPT !.value = g.value, !.ok = g.ok],
               Bump(recency, key))

Remove(key) ==
    \E st \in {RemoveBody(Cur, key)} :
        Commit(st, Call("Remove", key, NilValue, key \in RecKeys(recency)),
               NoRet, recency)

RemoveOldest ==
    \E r \in {RemoveOldestBody(Cur)} :
        Commit(r.st, Call("RemoveOldest", NilKey, NilValue, FALSE),
               [NoRet EXCEPT !.key = r.key], recency)

Foreach ==
    \E st \in ForeachBody(Cur) :
        Commit(st, Call("Foreach", NilKey, NilValue, FALSE), NoRet, recency)

RemoveForeach ==
    \E st \in RemoveForeachBody(Cur) :
        Commit(st, Call("RemoveForeach", NilKey, NilValue, FALSE), NoRet, recency)

Next ==
    \/ (\E key \in Keys, value \in Values : Add(key, value)) /\ UNCHANGED tally
    \/ (\E key \in Keys : Get(key)) /\ UNCHANGED tally
    \/ (\E key \in Keys : Remove(key)) /\ UNCHANGED tally
    \/ RemoveOldest /\ UNCHANGED tally
    \/ Foreach /\ UNCHANGED tally
    \/ RemoveForeach /\ UNCHANGED tally

Spec == Init /\ [][Next]_vars

\* a client that only uses the cache, Add and Get, and never removes an
\* entry by hand; the ghost counts are kept
NextCounted ==
    \/ /\ \E key \in Keys, value \in Values : Add(key, value)
       /\ tally' = Counted(tally, op', Resident(c), Resident(c'))
    \/ /\ \E key \in Keys : Get(key)
       /\ tally' = Counted(tally, op', Resident(c), Resident(c'))

SpecCounted == Init /\ [][NextCounted]_vars

\* ------------------------------------------------------------ observables
\* Len()
CacheLen == LenBody(Cur)

\* the entries of the recency sequence, front to back
ListEntries(l) ==
    LET ord == Order(l) IN [i \in 1..Len(ord) |-> l.Value[ord[i]]]

Entries == ListEntries(c.Ll)

IndexKeys == Resident(c)

EvictedOf(evs) == SelectSeq(evs, LAMBDA x : x.type = "evicted")

VisitsOf(evs) == SelectSeq(evs, LAMBDA x : x.type = "visit")

KeyValue(e) == [key |-> e.key, value |-> e.value]

TypeOK ==
    /\ c.MaxEntries \in (0 - 1)..MaxCap
    /\ c.OnEvicted \in BOOLEAN
    /\ c.made \in BOOLEAN
    /\ DOMAIN c.Cache \subseteq Keys

\* ------------------------------------------------------------------ C1
\* C1: the index and the recency sequence are mutually consistent: the keys
\* of the index are the keys held by the linked nodes, every indexed key
\* maps to the linked node holding it, no key is held by two nodes, and
\* Len() is the number of indexed keys.
C1_IndexAndSequenceConsistent ==
    LET ord == Order(c.Ll)
    IN  /\ IndexKeys = {c.Ll.Value[ord[i]].key : i \in 1..Len(ord)}
        /\ \A k \in IndexKeys :
              /\ \E i \in 1..Len(ord) : ord[i] = c.Cache[k]
              /\ c.Ll.Value[c.Cache[k]].key = k
        /\ \A i, j \in 1..Len(ord) :
              c.Ll.Value[ord[i]].key = c.Ll.Value[ord[j]].key => i = j
        /\ CacheLen = Cardinality(IndexKeys)
        /\ CacheLen = Len(ord)

\* a pruning pass has removed entries from a cache that still holds two
C1_Witness ==
    /\ op.name = "RemoveForeach"
    /\ Len(EvictedOf(events)) >= 1
    /\ CacheLen >= 2

\* ------------------------------------------------------------------ C2
\* C2: with MaxEntries = N > 0, Len() <= N after every Add and so in every
\* reachable state.
C2_LenWithinMaxEntries ==
    c.MaxEntries > 0 => CacheLen <= c.MaxEntries

\* an Add to a full cache of two has evicted and left two
C2_Witness ==
    /\ op.name = "Add"
    /\ c.MaxEntries = 2
    /\ Len(EvictedOf(events)) = 1
    /\ CacheLen = 2

\* ------------------------------------------------------------------ C3
\* the value the ghost holds for a resident key: the one last Added
LastAdded(rec, k) == (CHOOSE i \in 1..Len(rec) : rec[i].key = k)

Reverse(q) == [i \in 1..Len(q) |-> q[Len(q) + 1 - i]]

Without(q, k) == SelectSeq(q, LAMBDA x : x.key # k)

\* C3: an Add fires the eviction callback exactly once when the key was
\* absent, MaxEntries # 0 and the size after insertion exceeds MaxEntries,
\* and then with the key and value of the entry whose last touch is the
\* oldest; every other Add fires no callback.
C3_AddEvictsOnceTheLeastRecentlyUsed ==
    [][op'.name = "Add" =>
         LET k    == op'.key
             rec  == Touch(recency, k, op'.value)
             over == /\ k \notin IndexKeys
                     /\ c.MaxEntries # 0
                     /\ CacheLen + 1 > c.MaxEntries
         IN  IF over
             THEN /\ Len(events') = 1
                  /\ events'[1].type = "evicted"
                  /\ KeyValue(events'[1]) = rec[Len(rec)]
             ELSE events' = <<>>]_vars

\* an Add of an absent key has evicted another key from a cache of two
C3_Witness ==
    /\ op.name = "Add"
    /\ ~op.present
    /\ Len(events) = 1
    /\ events[1].type = "evicted"
    /\ events[1].key # op.key
    /\ CacheLen = 2

\* ------------------------------------------------------------------ C4
\* C4: Add(k, v2) of a resident k replaces k's value and moves k to the
\* front: Len() and the resident keys are unchanged, nothing is evicted, no
\* callback fires, and a following Get(k) returns (v2, true).
C4_AddOfResidentKeyUpdatesInPlace ==
    [][/\ (op'.name = "Add" /\ op'.key \in IndexKeys) =>
            /\ CacheLen' = CacheLen
            /\ IndexKeys' = IndexKeys
            /\ events' = <<>>
            /\ Entries' = Touch(Entries, op'.key, op'.value)
       /\ (op.name = "Add" /\ op.present /\ op'.name = "Get" /\ op'.key = op.key) =>
            /\ ret'.ok
            /\ ret'.value = op.value]_vars

\* a resident key of a full cache of two or more has been Added again
C4_Witness ==
    /\ op.name = "Add"
    /\ op.present
    /\ CacheLen >= 2
    /\ CacheLen = c.MaxEntries
    /\ Entries[1] = [key |-> op.key, value |-> op.value]

\* ------------------------------------------------------------------ C5
\* C5: a Get(k) that hits returns the value last Added for k, leaves Len()
\* and the resident keys unchanged and moves k to the front; with another
\* entry present, a RemoveOldest right after the Get does not remove k.
C5_GetHitRefreshesTheKey ==
    [][/\ (op'.name = "Get" /\ op'.key \in IndexKeys) =>
            /\ ret'.ok
            /\ ret'.value = recency[LastAdded(recency, op'.key)].value
            /\ CacheLen' = CacheLen
            /\ IndexKeys' = IndexKeys
            /\ events' = <<>>
            /\ Entries' = Bump(Entries, op'.key)
       /\ (op.name = "Get" /\ ret.ok /\ CacheLen >= 2 /\ op'.name = "RemoveOldest") =>
            /\ ret'.key # op.key
            /\ op.key \in IndexKeys']_vars

\* a Get has hit in a cache holding other entries too
C5_Witness ==
    /\ op.name = "Get"
    /\ ret.ok
    /\ CacheLen >= 2
    /\ Entries[1].key = op.key

\* ------------------------------------------------------------------ C6
\* the entries a call could remove: the resident ones and the one it Adds
Candidates == IF op'.name = "Add" THEN Touch(recency, op'.key, op'.value) ELSE recency

\* C6: every removal (Remove, RemoveOldest, eviction inside Add,
\* RemoveForeach) fires the callback exactly once for the removed entry,
\* with its key and the value last stored for it, and only after the entry
\* is out of both the sequence and the index; no callback fires for an
\* entry that stays resident.
C6_EveryRemovalNotifiedOnceAfterwards ==
    [][LET gone == {Candidates[i] : i \in {j \in 1..Len(Candidates) :
                                            Candidates[j].key \notin IndexKeys'}}
           evs  == EvictedOf(events')
       IN  /\ {KeyValue(evs[i]) : i \in 1..Len(evs)} = gone
           /\ Len(evs) = Cardinality(gone)
           /\ \A i \in 1..Len(evs) :
                /\ ~evs[i].linked
                /\ ~evs[i].indexed
                /\ evs[i].key \notin IndexKeys']_vars

\* one pruning pass has removed two entries and kept a third
C6_Witness ==
    /\ op.name = "RemoveForeach"
    /\ Len(EvictedOf(events)) = 2
    /\ CacheLen = 1

\* ------------------------------------------------------------------ C7
\* C7: Remove(k) of a resident k deletes exactly that entry (Len() drops by
\* one, a following Get(k) misses) and fires the callback with k and its
\* value; Remove(k) of an absent k changes nothing and fires no callback.
C7_RemoveDeletesExactlyTheKey ==
    [][/\ op'.name = "Remove" =>
            IF op'.key \in IndexKeys
            THEN /\ Entries' = Without(Entries, op'.key)
                 /\ CacheLen' = CacheLen - 1
                 /\ IndexKeys' = IndexKeys \ {op'.key}
                 /\ Len(events') = 1
                 /\ events'[1].type = "evicted"
                 /\ KeyValue(events'[1]) = recency[LastAdded(recency, op'.key)]
            ELSE /\ c' = c
                 /\ events' = <<>>
       /\ (op.name = "Remove" /\ op'.name = "Get" /\ op'.key = op.key) =>
            /\ ~ret'.ok
            /\ ret'.value = NilValue]_vars

\* a resident key that was not the oldest has been removed
C7_Witness ==
    /\ op.name = "Remove"
    /\ op.present
    /\ Len(events) = 1
    /\ events[1].key = op.key
    /\ CacheLen = 2

\* ------------------------------------------------------------------ C8
\* C8: RemoveOldest on a non-empty cache removes exactly the least recently
\* touched entry, fires the callback for it and returns its key; on an empty
\* cache it returns nil, changes nothing and fires no callback.
C8_RemoveOldestRemovesTheBack ==
    [][op'.name = "RemoveOldest" =>
         IF CacheLen > 0
         THEN /\ Len(recency) > 0
              /\ Entries' = SubSeq(Entries, 1, Len(Entries) - 1)
              /\ Entries' = SubSeq(recency, 1, Len(recency) - 1)
              /\ CacheLen' = CacheLen - 1
              /\ Len(events') = 1
              /\ events'[1].type = "evicted"
              /\ KeyValue(events'[1]) = recency[Len(recency)]
              /\ ret'.key = recency[Len(recency)].key
         ELSE /\ c' = c
              /\ events' = <<>>
              /\ ret'.key = NilKey]_vars

\* RemoveOldest has taken one entry out of three
C8_Witness ==
    /\ op.name = "RemoveOldest"
    /\ ret.key # NilKey
    /\ Len(events) = 1
    /\ CacheLen = 2

\* ------------------------------------------------------------------ C9
\* C9: Foreach visits the resident entries in ascending order of last touch,
\* least recently used first; the first key visited is the one a RemoveOldest
\* right after it removes; it stops right after the first visit that
\* returns true.
C9_ForeachVisitsOldestFirst ==
    [][/\ op'.name = "Foreach" =>
            LET asc == Reverse(recency)
                vs  == events'
            IN  /\ Len(vs) <= Len(asc)
                /\ \A i \in 1..Len(vs) :
                     /\ vs[i].type = "visit"
                     /\ KeyValue(vs[i]) = asc[i]
                     /\ vs[i].stop => i = Len(vs)
                /\ Len(vs) < Len(asc) => (Len(vs) > 0 /\ vs[Len(vs)].stop)
       /\ (op.name = "Foreach" /\ events # <<>> /\ op'.name = "RemoveOldest") =>
            ret'.key = events[1].key]_vars

\* a Foreach over three entries was stopped at the second
C9_Witness ==
    /\ op.name = "Foreach"
    /\ CacheLen = 3
    /\ Len(events) = 2
    /\ events[2].stop

\* ----------------------------------------------------------------- C10
\* two traces of visits that one visitor, a function of key and value, can give
SameVisitor(e1, e2) ==
    \A i \in 1..Len(e1), j \in 1..Len(e2) :
        KeyValue(e1[i]) = KeyValue(e2[j]) => e1[i].stop = e2[j].stop

\* C10: Foreach is read-only: whatever visit returns, it leaves the order,
\* the resident keys, every value and Len() unchanged and fires no eviction
\* callback, so two consecutive Foreach calls with the same visitor make the
\* same visits.
C10_ForeachIsReadOnly ==
    [][/\ op'.name = "Foreach" =>
            /\ c' = c
            /\ Entries' = Entries
            /\ IndexKeys' = IndexKeys
            /\ CacheLen' = CacheLen
            /\ EvictedOf(events') = <<>>
       /\ (op.name = "Foreach" /\ op'.name = "Foreach" /\ SameVisitor(events, events')) =>
            events' = events]_vars

\* a Foreach has visited every entry of a cache of two or more
C10_Witness ==
    /\ op.name = "Foreach"
    /\ CacheLen >= 2
    /\ Len(events) = CacheLen
    /\ ~events[Len(events)].stop

\* ----------------------------------------------------------------- C11
\* position of key k in a sequence of entries
PosOf(q, k) == CHOOSE i \in 1..Len(q) : q[i].key = k

\* C11: in RemoveForeach stop takes precedence over remove: a visit that
\* answers stop=true is the last one, its entry stays resident whatever
\* remove was, no callback is made for it, and it and every newer entry are
\* neither visited further nor changed.
C11_StopTakesPrecedenceOverRemove ==
    [][op'.name = "RemoveForeach" =>
         \A i \in 1..Len(events') :
            (events'[i].type = "visit" /\ events'[i].stop) =>
               LET k   == events'[i].key
                   pos == PosOf(Entries, k)
               IN  /\ i = Len(events')
                   /\ k \in IndexKeys'
                   /\ \A j \in 1..Len(events') :
                         events'[j].type = "evicted" => events'[j].key # k
                   /\ SubSeq(Entries', 1, pos) = SubSeq(Entries, 1, pos)
                   /\ \A j \in 1..Len(events'), n \in 1..(pos - 1) :
                         events'[j].key # Entries[n].key]_vars

\* a pass removed the oldest entry, then was stopped at the next one by an
\* answer that also asked for its removal, and a newer entry was not reached
C11_Witness ==
    /\ op.name = "RemoveForeach"
    /\ Len(events) = 3
    /\ events[2].type = "evicted"
    /\ events[3].type = "visit" /\ events[3].stop /\ events[3].remove
    /\ CacheLen = 2
    /\ Entries[2].key = events[3].key

\* ----------------------------------------------------------------- C12
\* the (key, value) pairs of a sequence of events
Pairs(q) == [i \in 1..Len(q) |-> KeyValue(q[i])]

\* C12: after a RemoveForeach whose visitor never answers stop, the cache
\* holds exactly the entries answered remove=false, in their old order, and
\* the eviction callback has fired exactly once for each entry answered
\* remove=true, oldest first.
C12_PassWithoutStopKeepsTheUnremoved ==
    [][op'.name = "RemoveForeach" =>
         LET vs       == VisitsOf(events')
             kept     == SelectSeq(vs, LAMBDA x : ~x.remove)
             removed  == SelectSeq(vs, LAMBDA x : x.remove)
         IN  (\A i \in 1..Len(vs) : ~vs[i].stop) =>
                /\ Pairs(vs) = Reverse(Entries)
                /\ Entries' = Reverse(Pairs(kept))
                /\ IndexKeys' = {kept[i].key : i \in 1..Len(kept)}
                /\ CacheLen' = Len(kept)
                /\ Pairs(EvictedOf(events')) = Pairs(removed)]_vars

\* a pass over three entries removed the oldest two and kept the newest
C12_Witness ==
    /\ op.name = "RemoveForeach"
    /\ Len(events) = 5
    /\ \A i \in 1..5 : events[i].type = "visit" => ~events[i].stop
    /\ events[2].type = "evicted"
    /\ events[4].type = "evicted"
    /\ ~events[5].remove
    /\ CacheLen = 1

\* ----------------------------------------------------------------- C13
\* C13: Get(k) of an absent key returns (nil, false) and mutates nothing:
\* the recency order, the resident keys, the values and Len() are unchanged
\* and no callback fires.
C13_GetMissChangesNothing ==
    [][(op'.name = "Get" /\ op'.key \notin IndexKeys) =>
          /\ ret'.value = NilValue
          /\ ret'.ok = FALSE
          /\ c' = c
          /\ Entries' = Entries
          /\ IndexKeys' = IndexKeys
          /\ CacheLen' = CacheLen
          /\ events' = <<>>]_vars

\* a Get has missed on a cache that holds two entries
C13_Witness ==
    /\ op.name = "Get"
    /\ ~op.present
    /\ ~ret.ok
    /\ CacheLen = 2

\* ----------------------------------------------------------------- C15
\* C15: RemoveForeach visits the entries resident when the call started
\* once each, oldest first, up to the first stop: a removal of the visited
\* entry never makes the pass skip an entry, repeat one or end early.
C15_PassVisitsEveryEntryOnce ==
    [][op'.name = "RemoveForeach" =>
         LET vs  == VisitsOf(events')
             asc == Reverse(recency)
         IN  /\ Len(vs) <= Len(asc)
             /\ \A i \in 1..Len(vs) :
                   /\ KeyValue(vs[i]) = asc[i]
                   /\ vs[i].stop => i = Len(vs)
             /\ Len(vs) < Len(asc) => (Len(vs) > 0 /\ vs[Len(vs)].stop)]_vars

\* a pass over three entries removed the first and the second and went on
\* to the third
C15_Witness ==
    /\ op.name = "RemoveForeach"
    /\ Len(VisitsOf(events)) = 3
    /\ Len(EvictedOf(events)) >= 2
    /\ events[1].remove
    /\ events[3].remove

\* ----------------------------------------------------------------- C17
\* C17: with MaxEntries = 0 or MaxEntries >= 1, right after Add(k, v) the
\* key k is resident at the front of the recency sequence with value v, a
\* Get(k) returns (v, true), and the eviction made inside Add never removes
\* the key this Add inserted.
C17_AddLeavesTheKeyAtTheFront ==
    [][/\ (op'.name = "Add" /\ c.MaxEntries >= 0) =>
            /\ op'.key \in IndexKeys'
            /\ CacheLen' >= 1
            /\ Entries'[1] = [key |-> op'.key, value |-> op'.value]
            /\ \A i \in 1..Len(events') : events'[i].key # op'.key
       /\ (op.name = "Add" /\ c.MaxEntries >= 0
             /\ op'.name = "Get" /\ op'.key = op.key) =>
            /\ ret'.value = op.value
            /\ ret'.ok]_vars

\* an Add of a new key to a full cache of one has evicted the old entry
C17_Witness ==
    /\ op.name = "Add"
    /\ ~op.present
    /\ c.MaxEntries = 1
    /\ Len(EvictedOf(events)) = 1
    /\ CacheLen = 1
    /\ Entries[1].key = op.key

\* ----------------------------------------------------------------- C19
\* the key a call names
Touched(o) == IF o.name \in {"Add", "Get", "Remove"} THEN o.key ELSE NilKey

\* C19: every operation changes the recency position of at most the key it
\* touches and never the value of another key: the entries that stay
\* resident and are not the touched key keep their values and their
\* relative order.
C19_OtherEntriesKeepValueAndOrder ==
    [][Keep(Without(Entries, Touched(op')), IndexKeys')
         = Without(Entries', Touched(op'))]_vars

\* an Add has refreshed one of three resident entries
C19_Witness ==
    /\ op.name = "Add"
    /\ op.present
    /\ CacheLen = 3
    /\ recency[1].key = op.key

\* ----------------------------------------------------------------- C20
\* C20: during RemoveForeach visits and eviction callbacks are strictly
\* interleaved: the callback for an entry answered (stop=false, remove=true)
\* comes right after its visit and before the next visit, and no callback
\* comes anywhere else.
C20_CallbackFollowsItsVisit ==
    op.name = "RemoveForeach" =>
        \A i \in 1..Len(events) :
           /\ (events[i].type = "visit" /\ ~events[i].stop /\ events[i].remove) =>
                 /\ i < Len(events)
                 /\ events[i + 1].type = "evicted"
                 /\ KeyValue(events[i + 1]) = KeyValue(events[i])
           /\ events[i].type = "evicted" =>
                 /\ i > 1
                 /\ events[i - 1].type = "visit"
                 /\ ~events[i - 1].stop /\ events[i - 1].remove
                 /\ KeyValue(events[i - 1]) = KeyValue(events[i])

\* a pass removed its first entry and then visited and kept a second
C20_Witness ==
    /\ op.name = "RemoveForeach"
    /\ Len(events) >= 4
    /\ events[1].type = "visit" /\ events[1].remove
    /\ events[2].type = "evicted"
    /\ events[3].type = "visit" /\ ~events[3].remove /\ ~events[3].stop
    /\ events[4].type = "visit"

\* ----------------------------------------------------------------- C16
\* the call in progress, on a receiver built by New with the same fields
AsNew ==
    [Cur EXCEPT !.made = New(c.MaxEntries).made,
                !.Cache = New(c.MaxEntries).Cache,
                !.Ll = New(c.MaxEntries).Ll]

\* C16: a zero-value cache behaves as an empty one: Len() is 0, Get misses,
\* Remove and RemoveOldest change nothing (RemoveOldest returns nil),
\* Foreach and RemoveForeach make no visit, none of them faults, and the
\* first Add leaves the receiver that the same Add leaves on a cache from
\* New with the same MaxEntries.
C16_ZeroValueBehavesAsEmpty ==
    [][~c.made =>
         /\ CacheLen = 0
         /\ ~ret'.panic
         /\ op'.name \in {"Get", "Remove", "RemoveOldest", "Foreach", "RemoveForeach"} =>
               /\ c' = c
               /\ events' = <<>>
               /\ ret'.value = NilValue /\ ~ret'.ok /\ ret'.key = NilKey
         /\ op'.name = "Add" =>
               LET st == AddBody(AsNew, op'.key, op'.value)
               IN  /\ c'.made
                   /\ c' = Left(st)
                   /\ events' = st.events]_vars

\* a RemoveOldest has returned from a cache no Add has initialised
C16_Witness ==
    /\ ~c.made
    /\ op.name = "RemoveOldest"
    /\ ret.key = NilKey
    /\ ~ret.panic

\* ----------------------------------------------------------------- C14
\* C14: with MaxEntries = 0 the cache is unbounded: no Add removes an entry
\* or fires the eviction callback, so while nothing is removed by hand
\* Len() is the number of distinct keys added.
C14_ZeroMaxEntriesIsUnbounded ==
    [][c.MaxEntries = 0 =>
         /\ op'.name = "Add" =>
               /\ events' = <<>>
               /\ IndexKeys' = IndexKeys \cup {op'.key}
               /\ Without(Entries', op'.key) = Without(Entries, op'.key)
         /\ IndexKeys' = tally'.added
         /\ CacheLen' = Cardinality(tally'.added)]_vars

\* an unbounded cache holds every key there is, the last one just added
C14_Witness ==
    /\ c.MaxEntries = 0
    /\ op.name = "Add"
    /\ ~op.present
    /\ CacheLen = NumKeys
    /\ Cardinality(tally.added) = NumKeys

\* ----------------------------------------------------------------- C18
\* C18 as stated: with MaxEntries = N >= 1 and nothing removed by hand, a
\* key just touched by Add or a Get hit survives the next N-1 Adds of absent
\* keys and, if not touched again, is evicted no later than the N-th such
\* Add, whatever Get calls and Adds of other resident keys are interleaved.
C18_SurvivesWhateverIsInterleaved ==
    [][(op'.name = "Add" /\ c.MaxEntries >= 1) =>
          /\ \A i \in 1..Len(events') :
                events'[i].type = "evicted" =>
                   tally.since[events'[i].key] + 1 >= c.MaxEntries
          /\ \A k \in IndexKeys' : tally'.since[k] <= c.MaxEntries - 1]_vars

\* C18 amended: the key survives the next N-1 Adds of absent keys when no
\* other resident key is touched in between; if not touched again it is
\* evicted no later than the N-th Add of an absent key, whatever Get calls
\* and Adds of other resident keys are interleaved.
C18_SurvivesWhileOthersAreUntouched ==
    [][(op'.name = "Add" /\ c.MaxEntries >= 1) =>
          /\ \A i \in 1..Len(events') :
                (events'[i].type = "evicted" /\ tally.clean[events'[i].key]) =>
                   tally.since[events'[i].key] + 1 >= c.MaxEntries
          /\ \A k \in IndexKeys' : tally'.since[k] <= c.MaxEntries - 1]_vars

\* in a cache of two, a key touched before the Add of an absent key has
\* survived that Add, which evicted the other entry
C18_Witness ==
    /\ c.MaxEntries = 2
    /\ op.name = "Add"
    /\ ~op.present
    /\ Len(EvictedOf(events)) = 1
    /\ \E k \in IndexKeys :
          /\ k # op.key
          /\ tally.since[k] = c.MaxEntries - 1
          /\ tally.clean[k]

====
